---- MODULE Spec2Model ----
(***************************************************************************)
(* Model of ecomm/protocol/config.hpp: the preprocessor and the compiler   *)
(* processing one translation unit that includes the header.               *)
(*                                                                         *)
(* The state is the macro table of the translation unit, the position of   *)
(* the preprocessor (in the text of the translation unit, or at a line of  *)
(* the header), the diagnostics emitted so far and the outcome of the      *)
(* build.  The translation unit may define the configuration macros before *)
(* or after it includes the header (a -D flag is a definition before the   *)
(* first line), and may include the header more than once.                 *)
(*                                                                         *)
(* Redefining a macro with a different replacement list is diagnosed by a  *)
(* warning and the new definition replaces the old one; that is what g++   *)
(* does with config.hpp:33 when ECOMM_PROTOCOL_VERSION is already defined. *)
(* A failed static_assert is an error; compilation goes on to the end of   *)
(* the translation unit and the build fails.                               *)
(***************************************************************************)
EXTENDS Integers, Sequences, FiniteSets

\* ---------------------------------------------------------------- bounds
\* Values tried by the translation unit lie within Margin of the limits.
Margin == 1
\* #define directives of the translation unit itself.
MaxDefines == 3
\* #include directives of the header in the translation unit.
MaxIncludes == 2

\* ------------------------------------------------------- program constants
ProtocolVersion == 0
BoardDefault == 0
DeviceDefault == 2
VersionLimit == 4
DeviceLimit == 256

GUARD == "ECOMM_PROTOCOL_CONFIG_HPP_"
ECOMM_PROTOCOL_VERSION == "ECOMM_PROTOCOL_VERSION"
ECOMM_BOARD_ID == "ECOMM_BOARD_ID"
ECOMM_DEVICE_N == "ECOMM_DEVICE_N"

\* The macros a consuming build may define.
ConfigNames == {ECOMM_PROTOCOL_VERSION, ECOMM_BOARD_ID, ECOMM_DEVICE_N}

\* Values around the limits 1 and 255 of the static_assert of line 43.
Values == ((0 - Margin) .. Margin)
            \cup ((DeviceLimit - Margin) .. (DeviceLimit + Margin - 1))

\* Values the fixed protocol version of the header is changed to.
VersionValues == ((0 - Margin) .. 0)
                   \cup ((VersionLimit - Margin) .. (VersionLimit + Margin - 1))

HeaderLines == {"L30", "L31", "L33", "L34", "L36", "L40", "L43", "L46"}

VARIABLES
    version,    \* the replacement list of config.hpp:33
    macros,     \* macro table: defined names -> value
    pc,         \* "tu", a header line, or "done"
    passes,     \* completed inclusions of the header
    defines,    \* #define directives of the translation unit so far
    late,       \* names the translation unit defined after the first inclusion
    before,     \* macro table when the first inclusion started
    exported,   \* macro table when the first inclusion ended
    checked,    \* values the static_asserts were evaluated against
    diags,      \* diagnostics, in order
    result      \* "none", "ok" or "failed"

vars == <<version, macros, pc, passes, defines, late, before, exported,
          checked, diags, result>>

NoMacros == [n \in {} |-> 0]

\* ------------------------------------------------------------ preprocessor
\* #ifdef name
IsDefined(table, name) == name \in DOMAIN table

\* #define name v : the table after the directive.
DefineMacro(table, name, v) ==
    [n \in (DOMAIN table) \cup {name} |-> IF n = name THEN v ELSE table[n]]

\* #define name v where name is defined with another replacement list.
Redefines(table, name, v) == IsDefined(table, name) /\ table[name] # v

Diag(sev, file, line, name) ==
    [sev |-> sev, file |-> file, line |-> line, name |-> name]

\* Diagnostics after #define name v at file:line.
DiagsOfDefine(ds, table, name, v, file, line) ==
    IF Redefines(table, name, v)
    THEN Append(ds, Diag("warning", file, line, name))
    ELSE ds

\* Diagnostics after static_assert(cond, ...) at line of the header.
DiagsOfAssert(ds, cond, line, name) ==
    IF cond THEN ds ELSE Append(ds, Diag("error", "header", line, name))

HasError(ds) == \E i \in 1..Len(ds) : ds[i].sev = "error"

\* ------------------------------------------------------------- conditions
VersionInRangeNoLower(v) == v < VersionLimit
VersionInRangeInclusive(v) == v >= 0 /\ v <= VersionLimit
\* ECOMM_PROTOCOL_VERSION >= 0 and ECOMM_PROTOCOL_VERSION < 4
VersionInRange(v) == v >= 0 /\ v < VersionLimit

DeviceInRangeShort(n) == n > 0 /\ n < DeviceLimit - 1
DeviceInRangeZero(n) == n >= 0 /\ n < DeviceLimit
\* ECOMM_DEVICE_N > 0 and ECOMM_DEVICE_N < 256
DeviceInRange(n) == n > 0 /\ n < DeviceLimit

\* ---------------------------------------------------------------- initial
InitRest ==
    /\ macros = NoMacros
    /\ pc = "tu"
    /\ passes = 0
    /\ defines = 0
    /\ late = {}
    /\ before = NoMacros
    /\ exported = NoMacros
    /\ checked = NoMacros
    /\ diags = <<>>
    /\ result = "none"

Init == version = ProtocolVersion /\ InitRest

\* The header with its fixed protocol version changed.
InitAnyVersion == version \in VersionValues /\ InitRest

\* ------------------------------------------------------ translation unit
\* #define name v in the translation unit (or -Dname=v before its first line)
Define(name, v) ==
    /\ pc = "tu"
    /\ defines < MaxDefines
    /\ defines' = defines + 1
    /\ macros' = DefineMacro(macros, name, v)
    /\ diags' = DiagsOfDefine(diags, macros, name, v, "tu", 0)
    /\ late' = IF passes >= 1 THEN late \cup {name} ELSE late
    /\ UNCHANGED <<version, pc, passes, before, exported, checked, result>>

\* #include <ecomm/protocol/config.hpp>
Include ==
    /\ pc = "tu"
    /\ passes < MaxIncludes
    /\ pc' = "L30"
    /\ before' = IF passes = 0 THEN macros ELSE before
    /\ UNCHANGED <<version, macros, passes, defines, late, exported, checked,
                   diags, result>>

\* End of the translation unit: the build fails iff an error was diagnosed.
Finish ==
    /\ pc = "tu"
    /\ passes >= 1
    /\ pc' = "done"
    /\ result' = IF HasError(diags) THEN "failed" ELSE "ok"
    /\ UNCHANGED <<version, macros, passes, defines, late, before, exported,
                   checked, diags>>

\* ----------------------------------------------------------------- header
IfndefGuardAlways ==
    /\ pc = "L30"
    /\ pc' = "L31"
    /\ UNCHANGED <<version, macros, passes, defines, late, before, exported,
                   checked, diags, result>>

\* #ifndef ECOMM_PROTOCOL_CONFIG_HPP_
IfndefGuard ==
    /\ pc = "L30"
    /\ pc' = IF IsDefined(macros, GUARD) THEN "L46" ELSE "L31"
    /\ UNCHANGED <<version, macros, passes, defines, late, before, exported,
                   checked, diags, result>>

DefineGuardForgotten ==
    /\ pc = "L31"
    /\ pc' = "L33"
    /\ UNCHANGED <<version, macros, passes, defines, late, before, exported,
                   checked, diags, result>>

\* #define ECOMM_PROTOCOL_CONFIG_HPP_
DefineGuard ==
    /\ pc = "L31"
    /\ macros' = DefineMacro(macros, GUARD, 0)
    /\ pc' = "L33"
    /\ UNCHANGED <<version, passes, defines, late, before, exported, checked,
                   diags, result>>

DefineVersionIfndef ==
    /\ pc = "L33"
    /\ macros' = IF IsDefined(macros, ECOMM_PROTOCOL_VERSION) THEN macros
                 ELSE DefineMacro(macros, ECOMM_PROTOCOL_VERSION, version)
    /\ pc' = "L34"
    /\ UNCHANGED <<version, passes, defines, late, before, exported, checked,
                   diags, result>>

\* #define ECOMM_PROTOCOL_VERSION 0
DefineVersion ==
    /\ pc = "L33"
    /\ macros' = DefineMacro(macros, ECOMM_PROTOCOL_VERSION, version)
    /\ diags' = DiagsOfDefine(diags, macros, ECOMM_PROTOCOL_VERSION, version,
                              "header", 33)
    /\ pc' = "L34"
    /\ UNCHANGED <<version, passes, defines, late, before, exported, checked,
                   result>>

\* static_assert(ECOMM_PROTOCOL_VERSION >= 0 and ECOMM_PROTOCOL_VERSION < 4)
AssertVersion ==
    /\ pc = "L34"
    /\ checked' = DefineMacro(checked, ECOMM_PROTOCOL_VERSION,
                              macros[ECOMM_PROTOCOL_VERSION])
    /\ diags' = DiagsOfAssert(diags,
                              VersionInRange(macros[ECOMM_PROTOCOL_VERSION]),
                              34, ECOMM_PROTOCOL_VERSION)
    /\ pc' = "L36"
    /\ UNCHANGED <<version, macros, passes, defines, late, before, exported,
                   result>>

IfndefBoardIdAlways ==
    /\ pc = "L36"
    /\ macros' = DefineMacro(macros, ECOMM_BOARD_ID, BoardDefault)
    /\ pc' = "L40"
    /\ UNCHANGED <<version, passes, defines, late, before, exported, checked,
                   diags, result>>

\* #ifndef ECOMM_BOARD_ID / #define ECOMM_BOARD_ID 0 / #endif
IfndefBoardId ==
    /\ pc = "L36"
    /\ macros' = IF IsDefined(macros, ECOMM_BOARD_ID) THEN macros
                 ELSE DefineMacro(macros, ECOMM_BOARD_ID, BoardDefault)
    /\ pc' = "L40"
    /\ UNCHANGED <<version, passes, defines, late, before, exported, checked,
                   diags, result>>

IfndefDeviceNBoardDefault ==
    /\ pc = "L40"
    /\ macros' = IF IsDefined(macros, ECOMM_DEVICE_N) THEN macros
                 ELSE DefineMacro(macros, ECOMM_DEVICE_N, BoardDefault)
    /\ pc' = "L43"
    /\ UNCHANGED <<version, passes, defines, late, before, exported, checked,
                   diags, result>>

\* #ifndef ECOMM_DEVICE_N / #define ECOMM_DEVICE_N 2 / #endif
IfndefDeviceN ==
    /\ pc = "L40"
    /\ macros' = IF IsDefined(macros, ECOMM_DEVICE_N) THEN macros
                 ELSE DefineMacro(macros, ECOMM_DEVICE_N, DeviceDefault)
    /\ pc' = "L43"
    /\ UNCHANGED <<version, passes, defines, late, before, exported, checked,
                   diags, result>>

AssertDeviceNDefault ==
    /\ pc = "L43"
    /\ checked' = DefineMacro(checked, ECOMM_DEVICE_N, DeviceDefault)
    /\ diags' = DiagsOfAssert(diags, DeviceInRange(DeviceDefault),
                              43, ECOMM_DEVICE_N)
    /\ pc' = "L46"
    /\ UNCHANGED <<version, macros, passes, defines, late, before, exported,
                   result>>

\* static_assert(ECOMM_DEVICE_N > 0 and ECOMM_DEVICE_N < 256)
AssertDeviceN ==
    /\ pc = "L43"
    /\ checked' = DefineMacro(checked, ECOMM_DEVICE_N, macros[ECOMM_DEVICE_N])
    /\ diags' = DiagsOfAssert(diags, DeviceInRange(macros[ECOMM_DEVICE_N]),
                              43, ECOMM_DEVICE_N)
    /\ pc' = "L46"
    /\ UNCHANGED <<version, macros, passes, defines, late, before, exported,
                   result>>

\* #endif // ECOMM_PROTOCOL_CONFIG_HPP_ : back to the including file.
Endif ==
    /\ pc = "L46"
    /\ pc' = "tu"
    /\ passes' = passes + 1
    /\ exported' = IF passes = 0 THEN macros ELSE exported
    /\ UNCHANGED <<version, macros, defines, late, before, checked, diags,
                   result>>

Next ==
    \/ \E name \in ConfigNames, v \in Values : Define(name, v)
    \/ Include
    \/ IfndefGuard
    \/ DefineGuard
    \/ DefineVersion
    \/ AssertVersion
    \/ IfndefBoardId
    \/ IfndefDeviceN
    \/ AssertDeviceN
    \/ Endif
    \/ Finish

Spec == Init /\ [][Next]_vars

SpecAnyVersion == InitAnyVersion /\ [][Next]_vars

\* ----------------------------------------------------------------- claims
Default(name) == IF name = ECOMM_DEVICE_N THEN 2 ELSE 0

\* The value the header is to resolve name to: the definition made before
\* the first inclusion if there is one, else the default.
Resolved(name) == IF IsDefined(before, name) THEN before[name] ELSE Default(name)

ErrorAt(line) ==
    \E i \in 1..Len(diags) :
        diags[i].sev = "error" /\ diags[i].file = "header" /\ diags[i].line = line

HeaderDiagAbout(name) ==
    \E i \in 1..Len(diags) : diags[i].file = "header" /\ diags[i].name = name

DeviceOverridden == IsDefined(before, ECOMM_DEVICE_N)

\* C1: an override v of ECOMM_DEVICE_N made before the header, 1 <= v <= 255,
\* is exported by the header as v exactly and the build succeeds.
C1_OverrideInRangeKept ==
    (DeviceOverridden /\ before[ECOMM_DEVICE_N] \in 1..255) =>
        /\ passes >= 1 => exported[ECOMM_DEVICE_N] = before[ECOMM_DEVICE_N]
        /\ pc = "done" => result = "ok"

C1_Witness ==
    /\ pc = "done"
    /\ result = "ok"
    /\ DeviceOverridden
    /\ before[ECOMM_DEVICE_N] = 255
    /\ exported[ECOMM_DEVICE_N] = 255

\* C2: an override v of ECOMM_DEVICE_N made before the header with v outside
\* [1,255] makes the build fail, with the error of the static_assert of
\* line 43; no such build ends "ok".
C2_OverrideOutOfRangeFails ==
    (DeviceOverridden /\ before[ECOMM_DEVICE_N] \notin 1..255) =>
        /\ passes >= 1 => ErrorAt(43)
        /\ pc = "done" => result = "failed"

C2_Witness ==
    /\ pc = "done"
    /\ result = "failed"
    /\ DeviceOverridden
    /\ before[ECOMM_DEVICE_N] = 0

\* C3: the build fails if and only if the protocol version is outside [0,3]
\* or the device count is outside [1,255], whatever the board id is.
C3_FailsIffOutOfRange ==
    pc = "done" =>
        (result = "failed" <=>
            \/ exported[ECOMM_PROTOCOL_VERSION] \notin 0..3
            \/ exported[ECOMM_DEVICE_N] \notin 1..255)

C3_Witness ==
    /\ pc = "done"
    /\ result = "ok"
    /\ IsDefined(before, ECOMM_BOARD_ID)
    /\ before[ECOMM_BOARD_ID] < 0
    /\ exported[ECOMM_BOARD_ID] < 0
    /\ version = 3
    /\ exported[ECOMM_DEVICE_N] = 1

\* C4: the board id is the override made before the header if there is one,
\* else 0; the header never diagnoses anything about it.
C4_BoardIdUnchecked ==
    /\ passes >= 1 => exported[ECOMM_BOARD_ID] = Resolved(ECOMM_BOARD_ID)
    /\ ~HeaderDiagAbout(ECOMM_BOARD_ID)
    /\ (pc = "done" /\ result = "failed") => (ErrorAt(34) \/ ErrorAt(43))

C4_Witness ==
    /\ pc = "done"
    /\ result = "ok"
    /\ IsDefined(before, ECOMM_BOARD_ID)
    /\ before[ECOMM_BOARD_ID] = 0 - 1
    /\ exported[ECOMM_BOARD_ID] = 0 - 1

\* C5: with no definition of ECOMM_DEVICE_N before the header, the header
\* exports 2 and the build succeeds.
C5_DeviceDefault ==
    (passes >= 1 /\ ~DeviceOverridden) =>
        /\ exported[ECOMM_DEVICE_N] = 2
        /\ pc = "done" => result = "ok"

C5_Witness ==
    /\ pc = "done"
    /\ result = "ok"
    /\ ~DeviceOverridden
    /\ exported[ECOMM_DEVICE_N] = 2

\* C6: every step of a second or later processing of the header leaves the
\* macro table and the diagnostics as they are.
C6_ReinclusionNoOp ==
    [][(passes >= 1 /\ pc \in HeaderLines) =>
           (macros' = macros /\ diags' = diags /\ checked' = checked)]_vars

C6_Witness ==
    /\ passes = 2
    /\ late # {}
    /\ Len(diags) > 0

\* C7: the static_assert of line 34 fails exactly when the fixed protocol
\* version is outside [0,3], and then the build fails.
C7_VersionChecked ==
    /\ IsDefined(checked, ECOMM_PROTOCOL_VERSION) =>
           (ErrorAt(34) <=> version \notin 0..3)
    /\ (pc = "done" /\ version \notin 0..3) => result = "failed"
    /\ ~IsDefined(checked, ECOMM_PROTOCOL_VERSION) => ~ErrorAt(34)

C7_Witness ==
    /\ pc = "done"
    /\ version = 0 - 1
    /\ result = "failed"
    /\ ErrorAt(34)
    /\ ~ErrorAt(43)

\* C8: a definition of ECOMM_BOARD_ID or ECOMM_DEVICE_N made only after the
\* header was processed does not reach the header: the header resolved and
\* validated the default and diagnosed nothing about that macro.
C8_LateOverrideIgnored ==
    \A name \in {ECOMM_BOARD_ID, ECOMM_DEVICE_N} :
        (name \in late /\ ~IsDefined(before, name)) =>
            /\ exported[name] = Default(name)
            /\ name = ECOMM_DEVICE_N => checked[name] = 2
            /\ ~HeaderDiagAbout(name)

C8_Witness ==
    /\ passes = 2
    /\ ECOMM_DEVICE_N \in late
    /\ ~DeviceOverridden
    /\ macros[ECOMM_DEVICE_N] = 256
    /\ exported[ECOMM_DEVICE_N] = 2

\* C9: each static_assert is evaluated against the value its macro was
\* resolved to, and fails exactly when that value is out of range.
C9_ValidatesResolved ==
    /\ IsDefined(checked, ECOMM_DEVICE_N) =>
           /\ checked[ECOMM_DEVICE_N] = Resolved(ECOMM_DEVICE_N)
           /\ ErrorAt(43) <=> Resolved(ECOMM_DEVICE_N) \notin 1..255
           /\ passes >= 1 => checked[ECOMM_DEVICE_N] = exported[ECOMM_DEVICE_N]
    /\ IsDefined(checked, ECOMM_PROTOCOL_VERSION) =>
           /\ checked[ECOMM_PROTOCOL_VERSION] = version
           /\ passes >= 1 =>
                  checked[ECOMM_PROTOCOL_VERSION] = exported[ECOMM_PROTOCOL_VERSION]
    /\ ~IsDefined(checked, ECOMM_DEVICE_N) => ~ErrorAt(43)

C9_Witness ==
    /\ pc = "L46"
    /\ passes = 0
    /\ DeviceOverridden
    /\ before[ECOMM_DEVICE_N] = 256
    /\ checked[ECOMM_DEVICE_N] = 256
    /\ ErrorAt(43)

\* C10: whatever ECOMM_PROTOCOL_VERSION was defined to before the header,
\* the header exports 0.
C10_VersionFixed ==
    passes >= 1 =>
        /\ exported[ECOMM_PROTOCOL_VERSION] = 0
        /\ checked[ECOMM_PROTOCOL_VERSION] = 0

C10_Witness ==
    /\ pc = "done"
    /\ result = "ok"
    /\ IsDefined(before, ECOMM_PROTOCOL_VERSION)
    /\ before[ECOMM_PROTOCOL_VERSION] = 1
    /\ exported[ECOMM_PROTOCOL_VERSION] = 0

====
